---- MODULE Spec2Model ----
(***************************************************************************)
(* Model of veikk.py: the Tablet translator (class Tablet) and the read    *)
(* loop of main().  The Tablet object is the record `tablet`; every call   *)
(* of uinput.send_events is one element of the sequence `uinput`.          *)
(***************************************************************************)
EXTENDS Integers, Sequences, FiniteSets, TLC

VARIABLES
    tablet,     \* fields of the Tablet object (reset_state)
    uinput,     \* the writes made so far: one sequence of InputEvents per uinput.send_events call
    hist,       \* the inputs handled so far, in order (raw events, or method calls in SpecApi)
    pc,         \* position of main: "enter", "created", "entered", "loop", "sync",
                \* "exited" (main returned), "crashed" (an exception left main);
                \* "api": methods called directly
    resync,     \* bookkeeping of the last EventsDroppedException / l.sync() sub-loop
    batch,      \* Len(hist) and Len(uinput) when the current l.events() / l.sync() call began
    proc        \* the handles main holds, what its except clauses printed, the exception that ended it

vars == <<tablet, uinput, hist, pc, resync, batch, proc>>

\* ------------------------------------------------------------------ bounds
MaxEvents == 3      \* inputs handled in one run
MaxDrops == 1       \* EventsDroppedException raised in one run

\* ------------------------------------------------------------ event codes
AxisCodes == {"ABS_X", "ABS_Y", "ABS_PRESSURE"}
AxisValues == {1000, 40000}
TouchValues == {0, 1, 2}
OtherEvents == {[code |-> "BTN_TOOL_PEN", value |-> 0],
                [code |-> "BTN_TOOL_PEN", value |-> 1],
                [code |-> "MSC_SCAN", value |-> 4]}

InputEvent(code, value) == [code |-> code, value |-> value]

\* the raw events l.events() and l.sync() can yield
RawEvents ==
    {InputEvent(c, v) : c \in AxisCodes, v \in AxisValues}
    \cup {InputEvent("BTN_LEFT", v) : v \in TouchValues}
    \cup {InputEvent("SYN_REPORT", 0)}
    \cup OtherEvents

\* ---------------------------------------------------------------- Tablet
\* Every method is an operator from the Tablet fields (and the clock value
\* now) to the new fields, the writes made to uinput and whether it raised.
Result(t, writes) == [tablet |-> t, writes |-> writes, raised |-> FALSE]

reset_state(now) ==
    [is_away |-> TRUE, is_touching |-> FALSE,
     pressed_button_1 |-> FALSE, pressed_button_2 |-> FALSE,
     lastmodif |-> now]

\* send_events that keeps the events for a later write
send_events_queued(t, events, is_away, now) ==
    Result([t EXCEPT !.lastmodif = now, !.is_away = is_away], <<>>)

\* send_events without the assignment self.is_away = is_away
send_events_keeps_away(t, events, is_away, now) ==
    Result([t EXCEPT !.lastmodif = now], <<events>>)

send_events(t, events, is_away, now) ==
    Result([t EXCEPT !.lastmodif = now, !.is_away = is_away], <<events>>)

\* send_state_no_pos building the burst before self.is_away = is_away
send_state_no_pos_stale(t, is_away, now) ==
    LET s == [t EXCEPT !.lastmodif = now, !.is_away = is_away]
    IN Result(s,
              << << InputEvent("BTN_TOUCH", IF t.is_touching THEN 1 ELSE 0),
                    InputEvent("BTN_TOOL_PEN", IF ~t.is_away THEN 1 ELSE 0),
                    InputEvent("BTN_STYLUS", IF t.pressed_button_1 THEN 1 ELSE 0),
                    InputEvent("BTN_STYLUS2", IF t.pressed_button_2 THEN 1 ELSE 0),
                    InputEvent("SYN_REPORT", 0) >> >>)

\* send_state_no_pos without the closing SYN_REPORT
send_state_no_pos_no_sync(t, is_away, now) ==
    LET s == [t EXCEPT !.lastmodif = now, !.is_away = is_away]
    IN Result(s,
              << << InputEvent("BTN_TOUCH", IF s.is_touching THEN 1 ELSE 0),
                    InputEvent("BTN_TOOL_PEN", IF ~s.is_away THEN 1 ELSE 0),
                    InputEvent("BTN_STYLUS", IF s.pressed_button_1 THEN 1 ELSE 0),
                    InputEvent("BTN_STYLUS2", IF s.pressed_button_2 THEN 1 ELSE 0) >> >>)

send_state_no_pos(t, is_away, now) ==
    LET s == [t EXCEPT !.lastmodif = now, !.is_away = is_away]
    IN Result(s,
              << << InputEvent("BTN_TOUCH", IF s.is_touching THEN 1 ELSE 0),
                    InputEvent("BTN_TOOL_PEN", IF ~s.is_away THEN 1 ELSE 0),
                    InputEvent("BTN_STYLUS", IF s.pressed_button_1 THEN 1 ELSE 0),
                    InputEvent("BTN_STYLUS2", IF s.pressed_button_2 THEN 1 ELSE 0),
                    InputEvent("SYN_REPORT", 0) >> >>)

\* touch_press that leaves the tablet away: send_state_no_pos(is_away=self.is_away)
touch_press_keeps_away(t, now) ==
    send_state_no_pos([t EXCEPT !.is_touching = TRUE], t.is_away, now)

\* touch_press that ignores the key while the pen is away
touch_press_guarded(t, now) ==
    IF t.is_away THEN Result(t, <<>>)
    ELSE send_state_no_pos([t EXCEPT !.is_touching = TRUE], FALSE, now)

touch_press(t, now) ==
    send_state_no_pos([t EXCEPT !.is_touching = TRUE], FALSE, now)

\* touch_release that forgets self.is_touching = False
touch_release_stuck(t, now) ==
    send_state_no_pos(t, FALSE, now)

\* touch_release that reports the pen as gone: send_state_no_pos(is_away=True)
touch_release_away(t, now) ==
    send_state_no_pos([t EXCEPT !.is_touching = FALSE], TRUE, now)

touch_release(t, now) ==
    send_state_no_pos([t EXCEPT !.is_touching = FALSE], FALSE, now)

\* button_1_press that toggles instead of setting
button_1_press_toggle(t, now) ==
    send_state_no_pos([t EXCEPT !.pressed_button_1 = ~@], FALSE, now)

button_1_press(t, now) ==
    send_state_no_pos([t EXCEPT !.pressed_button_1 = TRUE], FALSE, now)

button_1_release(t, now) ==
    send_state_no_pos([t EXCEPT !.pressed_button_1 = FALSE], FALSE, now)

button_2_press(t, now) ==
    send_state_no_pos([t EXCEPT !.pressed_button_2 = TRUE], FALSE, now)

button_2_release(t, now) ==
    send_state_no_pos([t EXCEPT !.pressed_button_2 = FALSE], FALSE, now)

\* move_x that marks the pen as gone: send_events(..., is_away=True)
move_x_away(t, abs_x, now) ==
    send_events(t, <<InputEvent("ABS_X", abs_x)>>, TRUE, now)

move_x(t, abs_x, now) ==
    send_events(t, <<InputEvent("ABS_X", abs_x)>>, FALSE, now)

\* move_y sending the event of move_x
move_y_as_x(t, abs_y, now) ==
    send_events(t, <<InputEvent("ABS_X", abs_y)>>, FALSE, now)

move_y(t, abs_y, now) ==
    send_events(t, <<InputEvent("ABS_Y", abs_y)>>, FALSE, now)

\* change_pressure clamping to the declared maximum of the axis
change_pressure_clamped(t, pressure, now) ==
    send_events(t, <<InputEvent("ABS_PRESSURE", IF pressure > 8191 THEN 8191 ELSE pressure)>>, FALSE, now)

change_pressure(t, pressure, now) ==
    send_events(t, <<InputEvent("ABS_PRESSURE", pressure)>>, FALSE, now)

\* the SYN_REPORT branch forwarding the InputEvent it builds
syn_report_forwarded(t, now) ==
    send_events(t, <<InputEvent("SYN_REPORT", 0)>>, FALSE, now)

\* the SYN_REPORT branch of handle_event: an InputEvent is built and discarded
syn_report(t, now) == Result(t, <<>>)

\* the else branch raising instead of printing
unknown_event_raises(t, e) ==
    [tablet |-> t, writes |-> <<>>, raised |-> TRUE]

\* the else branch of handle_event: print("Unkown event:"); print_event(e)
unknown_event(t, e) == Result(t, <<>>)

\* handle_event with a branch that routes a key to the stylus button
handle_event_stylus(t, e, now) ==
    IF e.code = "ABS_PRESSURE" THEN change_pressure(t, e.value, now)
    ELSE IF e.code = "ABS_X" THEN move_x(t, e.value, now)
    ELSE IF e.code = "ABS_Y" THEN move_y(t, e.value, now)
    ELSE IF e.code = "BTN_LEFT" THEN
        IF e.value = 1 THEN touch_press(t, now) ELSE touch_release(t, now)
    ELSE IF e.code = "BTN_TOOL_PEN" THEN
        IF e.value = 1 THEN button_1_press(t, now) ELSE button_1_release(t, now)
    ELSE IF e.code = "SYN_REPORT" THEN syn_report(t, now)
    ELSE unknown_event(t, e)

\* handle_event testing the touch key for truth: if e.value: touch_press()
handle_event_truthy(t, e, now) ==
    IF e.code = "ABS_PRESSURE" THEN change_pressure(t, e.value, now)
    ELSE IF e.code = "ABS_X" THEN move_x(t, e.value, now)
    ELSE IF e.code = "ABS_Y" THEN move_y(t, e.value, now)
    ELSE IF e.code = "BTN_LEFT" THEN
        IF e.value # 0 THEN touch_press(t, now) ELSE touch_release(t, now)
    ELSE IF e.code = "SYN_REPORT" THEN syn_report(t, now)
    ELSE unknown_event(t, e)

handle_event(t, e, now) ==
    IF e.code = "ABS_PRESSURE" THEN change_pressure(t, e.value, now)
    ELSE IF e.code = "ABS_X" THEN move_x(t, e.value, now)
    ELSE IF e.code = "ABS_Y" THEN move_y(t, e.value, now)
    ELSE IF e.code = "BTN_LEFT" THEN
        IF e.value = 1 THEN touch_press(t, now) ELSE touch_release(t, now)
    ELSE IF e.code = "SYN_REPORT" THEN syn_report(t, now)
    ELSE unknown_event(t, e)

\* ------------------------------------------------------------------ main
\* count: drops so far; S: the events l.sync() has yielded; pre, mark: the
\* Tablet fields and Len(uinput) when the drop was raised; done, at: the
\* sub-loop has finished, and Len(hist) when it did
NoResync == [count |-> 0, done |-> FALSE, S |-> <<>>, pre |-> reset_state(0),
             mark |-> 0, at |-> 0]

NoBatch == [start |-> 0, mark |-> 0]

\* the uinput device is created and settled, the device file is open
Running == [dev |-> "created", settled |-> TRUE, fd |-> "open",
            printed |-> <<>>, error |-> "none"]

\* state after Tablet.__enter__ (reset_state) and the open of the device
Init ==
    /\ tablet = reset_state(0)
    /\ uinput = <<>>
    /\ hist = <<>>
    /\ pc = "loop"
    /\ resync = NoResync
    /\ batch = NoBatch
    /\ proc = Running

\* the except clauses of main without the ENOENT branch
main_except_no_enoent(exc) ==
    IF exc = "KeyboardInterrupt" THEN [pc |-> "exited", printed |-> <<>>]
    ELSE IF exc = "EACCES"
        THEN [pc |-> "exited", printed |-> <<"Insufficient permissions to access path">>]
    ELSE [pc |-> "crashed", printed |-> <<>>]

\* the except clauses of main, for an exception raised inside the try: where
\* main ends and what it prints. IOError is OSError, so the clause
\* except IOError takes every OSError and re-raises all but EACCES and ENOENT.
main_except(exc) ==
    IF exc = "KeyboardInterrupt" THEN [pc |-> "exited", printed |-> <<>>]
    ELSE IF exc = "EACCES"
        THEN [pc |-> "exited", printed |-> <<"Insufficient permissions to access path">>]
    ELSE IF exc = "ENOENT"
        THEN [pc |-> "exited", printed |-> <<"Device path does not exist">>]
    ELSE [pc |-> "crashed", printed |-> <<>>]

\* exc leaves the with blocks of main: with open closes the file, Tablet.__exit__
\* does nothing, then the except clauses run
Leave(exc) ==
    /\ pc' = main_except(exc).pc
    /\ proc' = [proc EXCEPT !.fd = IF @ = "open" THEN "closed" ELSE @,
                            !.printed = @ \o main_except(exc).printed,
                            !.error = exc]

\* one iteration of either for loop of main: tablet.handle_event(e); an
\* exception leaving handle_event leaves the while loop uncaught
Handle(e) ==
    LET r == handle_event(tablet, e, Len(hist) + 1)
    IN /\ tablet' = r.tablet
       /\ uinput' = uinput \o r.writes
       /\ hist' = Append(hist, e)
       /\ pc' = IF r.raised THEN "crashed" ELSE pc

\* for e in l.events(): ... tablet.handle_event(e)
ReadEvent ==
    /\ pc = "loop"
    /\ Len(hist) < MaxEvents
    /\ \E e \in RawEvents : Handle(e)
    /\ UNCHANGED <<resync, batch, proc>>

\* l.events() raises EventsDroppedException: main enters for e in l.sync()
Overflow ==
    /\ pc = "loop"
    /\ resync.count < MaxDrops
    /\ pc' = "sync"
    /\ resync' = [count |-> resync.count + 1, done |-> FALSE, S |-> <<>>,
                  pre |-> tablet, mark |-> Len(uinput), at |-> 0]
    /\ batch' = [start |-> Len(hist), mark |-> Len(uinput)]
    /\ UNCHANGED <<tablet, uinput, hist, proc>>

\* for e in l.sync(): ... tablet.handle_event(e)
SyncEvent ==
    /\ pc = "sync"
    /\ Len(hist) < MaxEvents
    /\ \E e \in RawEvents :
        /\ Handle(e)
        /\ resync' = [resync EXCEPT !.S = Append(@, e)]
    /\ UNCHANGED <<batch, proc>>

\* l.sync() is exhausted: back to the top of while True
SyncDone ==
    /\ pc = "sync"
    /\ pc' = "loop"
    /\ resync' = [resync EXCEPT !.done = TRUE, !.at = Len(hist)]
    /\ batch' = [start |-> Len(hist), mark |-> Len(uinput)]
    /\ UNCHANGED <<tablet, uinput, hist, proc>>

\* KeyboardInterrupt at the blocking read: except KeyboardInterrupt: pass
Interrupt ==
    /\ pc \in {"loop", "sync"}
    /\ Leave("KeyboardInterrupt")
    /\ UNCHANGED <<tablet, uinput, hist, resync, batch>>

Next == ReadEvent \/ Overflow \/ SyncEvent \/ SyncDone \/ Interrupt

Spec == Init /\ [][Next]_vars

\* ------------------------------------------------- main from its first line
CreateErrnos == {"EACCES", "ENOENT"}
OpenErrnos == {"EACCES", "ENOENT", "EISDIR"}
ReadErrnos == {"ENODEV"}

\* the Tablet object before reset_state has no fields
InitMain ==
    /\ tablet = <<>>
    /\ uinput = <<>>
    /\ hist = <<>>
    /\ pc = "enter"
    /\ resync = NoResync
    /\ batch = NoBatch
    /\ proc = [dev |-> "none", settled |-> FALSE, fd |-> "none",
               printed |-> <<>>, error |-> "none"]

\* the writes of simulate_first_click
first_click ==
    << << InputEvent("BTN_TOUCH", 0), InputEvent("BTN_TOOL_PEN", 1), InputEvent("SYN_REPORT", 0) >>,
       << InputEvent("BTN_TOUCH", 0), InputEvent("BTN_TOOL_PEN", 0), InputEvent("SYN_REPORT", 0) >> >>

\* Tablet.__enter__ calling simulate_first_click right after the creation
CreateDevice_first_click ==
    /\ pc = "enter"
    /\ pc' = "created"
    /\ proc' = [proc EXCEPT !.dev = "created"]
    /\ uinput' = uinput \o first_click
    /\ UNCHANGED <<tablet, hist, resync, batch>>

\* Tablet.__enter__ up to create_uinput_device and the print of the devnode
CreateDevice ==
    /\ pc = "enter"
    /\ pc' = "created"
    /\ proc' = [proc EXCEPT !.dev = "created"]
    /\ UNCHANGED <<tablet, uinput, hist, resync, batch>>

\* create_uinput_device raises OSError
CreateFails ==
    /\ pc = "enter"
    /\ \E errno \in CreateErrnos : Leave(errno)
    /\ UNCHANGED <<tablet, uinput, hist, resync, batch>>

\* time.sleep(1); self.reset_state(); return self
Settle ==
    /\ pc = "created"
    /\ pc' = "entered"
    /\ proc' = [proc EXCEPT !.settled = TRUE]
    /\ tablet' = reset_state(0)
    /\ UNCHANGED <<uinput, hist, resync, batch>>

\* KeyboardInterrupt during time.sleep(1)
SettleInterrupted ==
    /\ pc = "created"
    /\ Leave("KeyboardInterrupt")
    /\ UNCHANGED <<tablet, uinput, hist, resync, batch>>

\* with open(path, "rb") as fd: l = libevdev.Device(fd); print_capabilities(l)
OpenDevice ==
    /\ pc = "entered"
    /\ pc' = "loop"
    /\ proc' = [proc EXCEPT !.fd = "open"]
    /\ UNCHANGED <<tablet, uinput, hist, resync, batch>>

\* open(path, "rb") raises OSError
OpenFails ==
    /\ pc = "entered"
    /\ \E errno \in OpenErrnos : Leave(errno)
    /\ UNCHANGED <<tablet, uinput, hist, resync, batch>>

\* the read of l.events() or l.sync() raises OSError (the device went away)
ReadFails ==
    /\ pc \in {"loop", "sync"}
    /\ \E errno \in ReadErrnos : Leave(errno)
    /\ UNCHANGED <<tablet, uinput, hist, resync, batch>>

NextMain ==
    \/ CreateDevice \/ CreateFails \/ Settle \/ SettleInterrupted
    \/ OpenDevice \/ OpenFails \/ ReadFails
    \/ ReadEvent \/ Overflow \/ SyncEvent \/ SyncDone \/ Interrupt

SpecMain == InitMain /\ [][NextMain]_vars

\* ------------------------------------------- the Tablet methods on their own
\* The state transitions of Tablet called directly, in any order (the
\* button transitions have no caller in handle_event).
Transitions == {"touch_press", "touch_release", "button_1_press",
                "button_1_release", "button_2_press", "button_2_release"}

Call(name, t, arg, now) ==
    IF name = "touch_press" THEN touch_press(t, now)
    ELSE IF name = "touch_release" THEN touch_release(t, now)
    ELSE IF name = "button_1_press" THEN button_1_press(t, now)
    ELSE IF name = "button_1_release" THEN button_1_release(t, now)
    ELSE IF name = "button_2_press" THEN button_2_press(t, now)
    ELSE IF name = "button_2_release" THEN button_2_release(t, now)
    ELSE IF name = "move_x" THEN move_x(t, arg, now)
    ELSE IF name = "move_y" THEN move_y(t, arg, now)
    ELSE change_pressure(t, arg, now)

InitApi ==
    /\ tablet = reset_state(0)
    /\ uinput = <<>>
    /\ hist = <<>>
    /\ pc = "api"
    /\ resync = NoResync
    /\ batch = NoBatch
    /\ proc = Running

ApiCall(name, arg) ==
    LET r == Call(name, tablet, arg, Len(hist) + 1)
    IN /\ tablet' = r.tablet
       /\ uinput' = uinput \o r.writes
       /\ hist' = Append(hist, InputEvent(name, arg))
       /\ UNCHANGED <<pc, resync, batch, proc>>

ApiTransition ==
    /\ pc = "api"
    /\ Len(hist) < MaxEvents
    /\ \E name \in Transitions : ApiCall(name, 0)

ApiAxis ==
    /\ pc = "api"
    /\ Len(hist) < MaxEvents
    /\ \E name \in {"move_x", "move_y", "change_pressure"}, v \in AxisValues :
        ApiCall(name, v)

NextApi == ApiTransition \/ ApiAxis

SpecApi == InitApi /\ [][NextApi]_vars

\* ======================================================== checked claims
Last(s) == s[Len(s)]
Bit(b) == IF b THEN 1 ELSE 0
Bools(t) == <<t.is_away, t.is_touching, t.pressed_button_1, t.pressed_button_2>>
Codes(w) == [i \in 1..Len(w) |-> w[i].code]
SnapshotCodes == <<"BTN_TOUCH", "BTN_TOOL_PEN", "BTN_STYLUS", "BTN_STYLUS2", "SYN_REPORT">>
IsFullBurst(w) == Codes(w) = SnapshotCodes
IsAxisWrite(w) == Len(w) = 1 /\ w[1].code \in AxisCodes
IsTouchKey(e) == e.code = "BTN_LEFT"
IsAxis(e) == e.code \in AxisCodes
KnownCodes == AxisCodes \cup {"BTN_LEFT", "SYN_REPORT"}
HasCode(S, c) == \E i \in 1..Len(S) : S[i].code = c
\* the value of the last event of S with code c, 0 (inactive) when S has none
LastValue(S, c) ==
    IF HasCode(S, c)
    THEN LET i == CHOOSE i \in 1..Len(S) :
                    /\ S[i].code = c
                    /\ \A j \in (i+1)..Len(S) : S[j].code # c
         IN S[i].value
    ELSE 0
\* the step just taken handled one more input, e
Handled(e) == hist' = Append(hist, e)
\* the five events of a snapshot burst
Burst(touch, proximity, stylus1, stylus2) ==
    << InputEvent("BTN_TOUCH", touch), InputEvent("BTN_TOOL_PEN", proximity),
       InputEvent("BTN_STYLUS", stylus1), InputEvent("BTN_STYLUS2", stylus2),
       InputEvent("SYN_REPORT", 0) >>

\* C1: whenever a touch key event is handled, the snapshot burst written by
\* send_state_no_pos carries BTN_TOUCH = is_touching and BTN_TOOL_PEN =
\* not is_away of the Tablet state at the instant of the write.
C1_BurstMatchesState ==
    [][\A e \in RawEvents :
        (Handled(e) /\ IsTouchKey(e)) =>
            /\ uinput' = Append(uinput, Last(uinput'))
            /\ Last(uinput')[1] = InputEvent("BTN_TOUCH", Bit(tablet'.is_touching))
            /\ Last(uinput')[2] = InputEvent("BTN_TOOL_PEN", Bit(~tablet'.is_away))]_vars

\* a release handled right after a press, the first one from the Away state
C1_Witness ==
    /\ Len(hist) = 2
    /\ hist[1] = InputEvent("BTN_LEFT", 1)
    /\ hist[2] = InputEvent("BTN_LEFT", 0)
    /\ uinput = <<Burst(1, 1, 0, 0), Burst(0, 1, 0, 0)>>

\* C2: every write is either one axis event or the five events touch-contact,
\* proximity, stylus-button-1, stylus-button-2, sync marker in this order, and
\* the write made for a touch key event is the five-event burst.
C2_BurstShape ==
    /\ \A i \in 1..Len(uinput) : IsAxisWrite(uinput[i]) \/ IsFullBurst(uinput[i])
    /\ \A i \in 1..Len(uinput) :
        (\E j \in 1..Len(uinput[i]) : uinput[i][j].code \notin AxisCodes)
            => /\ Len(uinput[i]) = 5
               /\ Last(uinput[i]) = InputEvent("SYN_REPORT", 0)
    /\ (Len(hist) > 0 /\ IsTouchKey(Last(hist)))
            => (Len(uinput) > 0 /\ IsFullBurst(Last(uinput)))

\* an axis write followed by a snapshot burst
C2_Witness ==
    /\ Len(uinput) = 2
    /\ IsAxisWrite(uinput[1])
    /\ IsFullBurst(uinput[2])
    /\ IsTouchKey(Last(hist))

\* C3: in every state between two handle_event calls, is_away implies not
\* is_touching.
C3_AwayNotTouching == tablet.is_away => ~tablet.is_touching

\* a press replayed by the resync sub-loop from the Away state
C3_Witness ==
    /\ resync.done
    /\ resync.pre.is_away
    /\ resync.S = <<InputEvent("BTN_LEFT", 1)>>
    /\ tablet.is_touching
    /\ ~tablet.is_away

\* the Tablet booleans a snapshot batch S stands for: a key is active when S
\* reports it with value 1, the pen is away when S does not report proximity
SnapshotState(S) ==
    [is_away |-> LastValue(S, "BTN_TOOL_PEN") = 0,
     is_touching |-> LastValue(S, "BTN_LEFT") = 1,
     pressed_button_1 |-> LastValue(S, "BTN_STYLUS") = 1,
     pressed_button_2 |-> LastValue(S, "BTN_STYLUS2") = 1]
\* S is a complete snapshot: it reports the touch key and the proximity key,
\* and does not report contact while the pen is away
FullSnapshot(S) ==
    /\ HasCode(S, "BTN_LEFT")
    /\ HasCode(S, "BTN_TOOL_PEN")
    /\ ~(SnapshotState(S).is_away /\ SnapshotState(S).is_touching)
\* the resync sub-loop has just finished
JustResynced == resync.done /\ resync.at = Len(hist)
\* the writes made during the resync sub-loop
ResyncWrites == SubSeq(uinput, resync.mark + 1, Len(uinput))
TouchKeys(S) == SelectSeq(S, IsTouchKey)

\* C4 as stated: after the resync sub-loop the four booleans are those the
\* snapshot batch S stands for, whatever the state before the overflow
\* (stated for the batches that report both touch and proximity).
C4_AsStated ==
    (JustResynced /\ FullSnapshot(resync.S)) =>
        Bools(tablet) = <<SnapshotState(resync.S).is_away,
                          SnapshotState(resync.S).is_touching,
                          SnapshotState(resync.S).pressed_button_1,
                          SnapshotState(resync.S).pressed_button_2>>

\* C4 amended: the resync sub-loop replays S on the state that existed before
\* the overflow: is_touching is (value = 1) of the last touch key event of S
\* and is unchanged when S has none; is_away is false when S has an axis or
\* touch key event and is unchanged otherwise; the buttons are unchanged.
C4_ResyncReplays ==
    JustResynced =>
        /\ tablet.is_touching =
              IF HasCode(resync.S, "BTN_LEFT")
              THEN LastValue(resync.S, "BTN_LEFT") = 1
              ELSE resync.pre.is_touching
        /\ tablet.is_away =
              IF \E i \in 1..Len(resync.S) : IsAxis(resync.S[i]) \/ IsTouchKey(resync.S[i])
              THEN FALSE
              ELSE resync.pre.is_away
        /\ tablet.pressed_button_1 = resync.pre.pressed_button_1
        /\ tablet.pressed_button_2 = resync.pre.pressed_button_2

\* a resync whose batch has no touch key event, entered while touching
C4_Witness ==
    /\ JustResynced
    /\ resync.pre.is_touching
    /\ Len(resync.S) > 0
    /\ ~HasCode(resync.S, "BTN_LEFT")
    /\ tablet.is_touching

\* C5 as stated: the resync sub-loop writes exactly one snapshot burst, with
\* the values of the snapshot (for touch=0, away=1: [0, 0, 0, 0, sync]);
\* stated for the batches that report both touch and proximity.
C5_AsStated ==
    (JustResynced /\ FullSnapshot(resync.S)) =>
        SelectSeq(ResyncWrites, IsFullBurst) =
            << Burst(Bit(SnapshotState(resync.S).is_touching),
                     Bit(~SnapshotState(resync.S).is_away),
                     Bit(SnapshotState(resync.S).pressed_button_1),
                     Bit(SnapshotState(resync.S).pressed_button_2)) >>

\* C5 amended: the resync sub-loop writes one snapshot burst per touch key
\* event of the batch, in order (none when the batch has none), each with
\* touch-contact = (value = 1), proximity = 1 and the stylus buttons of the
\* state before the overflow; the batch touch=0, away=1 yields exactly
\* [touch=0, proximity=1, stylus1=0, stylus2=0, sync].
C5_ResyncBursts ==
    JustResynced =>
        /\ Len(SelectSeq(ResyncWrites, IsFullBurst)) = Len(TouchKeys(resync.S))
        /\ \A k \in 1..Len(TouchKeys(resync.S)) :
              SelectSeq(ResyncWrites, IsFullBurst)[k] =
                  Burst(Bit(TouchKeys(resync.S)[k].value = 1), 1,
                        Bit(resync.pre.pressed_button_1),
                        Bit(resync.pre.pressed_button_2))
        /\ resync.S = <<InputEvent("BTN_LEFT", 0), InputEvent("BTN_TOOL_PEN", 0)>>
              => ResyncWrites = <<Burst(0, 1, 0, 0)>>

\* overflow followed by the snapshot batch touch=0, away=1
C5_Witness ==
    /\ JustResynced
    /\ resync.S = <<InputEvent("BTN_LEFT", 0), InputEvent("BTN_TOOL_PEN", 0)>>
    /\ ResyncWrites = <<Burst(0, 1, 0, 0)>>

\* C6 as stated: handling an axis event leaves all four booleans unchanged,
\* from every reachable state, the initial Away state included.
C6_AsStated ==
    [][\A e \in RawEvents :
        (Handled(e) /\ IsAxis(e)) => Bools(tablet') = Bools(tablet)]_vars

\* C6 amended: handling an axis event leaves is_touching, pressed_button_1
\* and pressed_button_2 unchanged and sets is_away to false: the four
\* booleans are unchanged except from a state where is_away is true.
C6_AxisFrame ==
    [][\A e \in RawEvents :
        (Handled(e) /\ IsAxis(e)) =>
            /\ tablet'.is_touching = tablet.is_touching
            /\ tablet'.pressed_button_1 = tablet.pressed_button_1
            /\ tablet'.pressed_button_2 = tablet.pressed_button_2
            /\ tablet'.is_away = FALSE
            /\ (~tablet.is_away => Bools(tablet') = Bools(tablet))]_vars

\* an axis event handled while touching, and one handled in the Away state
C6_Witness ==
    /\ Len(hist) = 3
    /\ IsAxis(hist[1])
    /\ hist[2] = InputEvent("BTN_LEFT", 1)
    /\ IsAxis(hist[3])
    /\ tablet.is_touching
    /\ ~tablet.is_away

\* C7: handling an axis event with value v writes exactly one event, on the
\* same axis, with exactly the value v, and no sync marker.
C7_AxisExact ==
    [][\A e \in RawEvents :
        (Handled(e) /\ IsAxis(e)) =>
            uinput' = Append(uinput, <<InputEvent(e.code, e.value)>>)]_vars

\* a pressure above the declared maximum passed through unchanged
C7_Witness ==
    /\ Len(hist) > 0
    /\ Last(hist) = InputEvent("ABS_PRESSURE", 40000)
    /\ Len(uinput) > 0
    /\ Last(uinput) = <<InputEvent("ABS_PRESSURE", 40000)>>

\* C8: a state transition applied twice in a row changes no boolean the
\* second time and writes a snapshot burst equal to the first one's.
C8_Idempotent ==
    [][(/\ Len(hist) > 0
        /\ Last(hist).code \in Transitions
        /\ Handled(Last(hist))) =>
            /\ Bools(tablet') = Bools(tablet)
            /\ Len(uinput) > 0
            /\ IsFullBurst(Last(uinput))
            /\ uinput' = Append(uinput, Last(uinput))]_vars

\* button_1_press applied twice in a row
C8_Witness ==
    /\ Len(hist) = 2
    /\ hist[1] = InputEvent("button_1_press", 0)
    /\ hist[2] = InputEvent("button_1_press", 0)
    /\ tablet.pressed_button_1
    /\ uinput = <<Burst(0, 1, 1, 0), Burst(0, 1, 1, 0)>>

\* C9: handling an event with an unrecognized code writes nothing, changes
\* no boolean and leaves main in its loop; an unknown code between two touch
\* key events yields exactly the two snapshot bursts, in source order.
C9_UnknownDropped ==
    [][/\ \A e \in RawEvents :
            (Handled(e) /\ e.code \notin KnownCodes) =>
                /\ uinput' = uinput
                /\ Bools(tablet') = Bools(tablet)
                /\ pc' = pc
       /\ (/\ Len(hist') = 3
           /\ IsTouchKey(hist'[1])
           /\ hist'[2].code \notin KnownCodes
           /\ IsTouchKey(hist'[3])) =>
                /\ pc' \in {"loop", "sync", "exited"}
                /\ uinput' = << Burst(Bit(hist'[1].value = 1), 1, 0, 0),
                                Burst(Bit(hist'[3].value = 1), 1, 0, 0) >>]_vars

\* press, unknown code, release: two bursts
C9_Witness ==
    /\ hist = <<InputEvent("BTN_LEFT", 1), InputEvent("MSC_SCAN", 4), InputEvent("BTN_LEFT", 0)>>
    /\ uinput = <<Burst(1, 1, 0, 0), Burst(0, 1, 0, 0)>>
    /\ pc = "loop"

BatchEvents == SubSeq(hist, batch.start + 1, Len(hist))
BatchWrites == SubSeq(uinput, batch.mark + 1, Len(uinput))
Emits(e) == IsAxis(e) \/ IsTouchKey(e)

\* C11 as stated: every event of a batch is translated while the batch has
\* written nothing yet, and the batch is emitted as one write.
C11_AsStated ==
    [][(\E e \in RawEvents : Handled(e)) =>
            /\ Len(uinput) = batch.mark
            /\ Len(uinput') <= batch.mark + 1]_vars

\* C11 amended: each raw event of a batch is translated and its output
\* written at once, before the next event of the batch is read: the k-th axis
\* or touch key event of the batch has produced the k-th write of the batch
\* (one axis event or one five-event burst), n such events giving n writes.
C11_WritePerEvent ==
    /\ Len(BatchWrites) = Len(SelectSeq(BatchEvents, Emits))
    /\ \A k \in 1..Len(BatchWrites) :
        LET e == SelectSeq(BatchEvents, Emits)[k]
        IN IF IsAxis(e) THEN BatchWrites[k] = <<e>>
           ELSE IsFullBurst(BatchWrites[k])

\* a resync batch of two emitting events, written as two writes
C11_Witness ==
    /\ pc = "sync"
    /\ resync.S = <<InputEvent("ABS_X", 1000), InputEvent("BTN_LEFT", 1)>>
    /\ BatchWrites = << <<InputEvent("ABS_X", 1000)>>, Burst(1, 1, 0, 0) >>

\* the writes one raw event stands for: a snapshot burst for a touch key
\* event, the same axis event for an axis event, nothing otherwise
TranslationOf(e) ==
    IF IsTouchKey(e) THEN << Burst(Bit(e.value = 1), 1, 0, 0) >>
    ELSE IF IsAxis(e) THEN << <<InputEvent(e.code, e.value)>> >>
    ELSE <<>>
RECURSIVE Translation(_)
Translation(es) ==
    IF es = <<>> THEN <<>>
    ELSE TranslationOf(es[1]) \o Translation(SubSeq(es, 2, Len(es)))

\* C12: the writes made to the virtual device are the in-order concatenation
\* of the per-event translations of the raw events handled so far; the input
\* [TouchKey=1, SyncMarker] yields exactly [1, 1, 0, 0, sync].
C12_SourceOrder ==
    /\ uinput = Translation(hist)
    /\ hist = <<InputEvent("BTN_LEFT", 1), InputEvent("SYN_REPORT", 0)>>
          => uinput = << Burst(1, 1, 0, 0) >>

\* two axes and a press, written in the order they were read
C12_Witness ==
    /\ hist = <<InputEvent("ABS_Y", 1000), InputEvent("ABS_X", 40000), InputEvent("BTN_LEFT", 1)>>
    /\ uinput = << <<InputEvent("ABS_Y", 1000)>>, <<InputEvent("ABS_X", 40000)>>, Burst(1, 1, 0, 0) >>

\* C13: nothing is written to the virtual device before the device has been
\* created and the settle wait after the creation has completed.
C13_SettleBeforeEmit ==
    /\ proc.settled => proc.dev = "created"
    /\ Len(uinput) > 0 => (proc.dev = "created" /\ proc.settled)

\* the first write, made in the read loop after creation and settle
C13_Witness ==
    /\ pc = "loop"
    /\ Len(hist) = 1
    /\ Len(uinput) = 1
    /\ proc.dev = "created"
    /\ proc.settled

\* main has ended: it returned, or an exception left it
Ended == pc \in {"exited", "crashed"}

\* C14: when main has ended, on whatever path, the device file and the
\* uinput device it acquired have both been closed.
C14_HandlesReleased ==
    Ended => (proc.fd # "open" /\ proc.dev # "created")

\* C15: an OSError that is neither EACCES nor ENOENT ends main with its
\* message printed and without an exception leaving main.
C15_OtherErrorPrinted ==
    (Ended /\ proc.error \notin {"none", "KeyboardInterrupt", "EACCES", "ENOENT"})
        => (pc = "exited" /\ Len(proc.printed) = 1)

\* C16: EACCES and ENOENT end main with a clean return after the message
\* naming the path, a KeyboardInterrupt ends it with a clean return and no
\* message.
C16_CleanReturn ==
    /\ (Ended /\ proc.error = "EACCES") =>
            (pc = "exited" /\ proc.printed = <<"Insufficient permissions to access path">>)
    /\ (Ended /\ proc.error = "ENOENT") =>
            (pc = "exited" /\ proc.printed = <<"Device path does not exist">>)
    /\ (Ended /\ proc.error = "KeyboardInterrupt") =>
            (pc = "exited" /\ proc.printed = <<>>)

\* the device file does not exist: open fails after the uinput device was made
C16_Witness ==
    /\ pc = "exited"
    /\ proc.error = "ENOENT"
    /\ proc.dev = "created"
    /\ proc.fd = "none"
    /\ proc.printed = <<"Device path does not exist">>

\* C17: a touch key event handled while is_away is true neither sets
\* is_touching nor makes the state report contact.
C17_AsStated ==
    [][\A e \in RawEvents :
        (Handled(e) /\ IsTouchKey(e) /\ tablet.is_away) =>
            /\ ~tablet'.is_touching
            /\ \A i \in (Len(uinput) + 1)..Len(uinput') :
                    InputEvent("BTN_TOUCH", 1) \notin {uinput'[i][j] : j \in 1..Len(uinput'[i])}]_vars

\* C17 as the code has it: a touch key event is interpreted in the Away state
\* too; it sets is_touching to (value = 1), clears is_away and writes the
\* snapshot burst of the new state, with proximity 1.
C17_TouchWhileAway ==
    [][\A e \in RawEvents :
        (Handled(e) /\ IsTouchKey(e) /\ tablet.is_away) =>
            /\ tablet'.is_touching = (e.value = 1)
            /\ ~tablet'.is_away
            /\ uinput' = Append(uinput, Burst(Bit(e.value = 1), 1, 0, 0))]_vars

\* the first event of a run is a press: it is handled in the Away state
C17_Witness ==
    /\ hist = <<InputEvent("BTN_LEFT", 1)>>
    /\ tablet.is_touching
    /\ ~tablet.is_away
    /\ uinput = <<Burst(1, 1, 0, 0)>>

\* S holds an axis or touch key event: the events that make a write
Emitted(S) == \E i \in 1..Len(S) : IsAxis(S[i]) \/ IsTouchKey(S[i])

\* C18: is_away is true exactly until the first axis or touch key event has
\* been handled and never again afterwards, whatever is read, dropped or
\* replayed; every proximity value written to the virtual device is 1.
C18_AwayOnlyInitially ==
    /\ tablet.is_away = ~Emitted(hist)
    /\ \A i \in 1..Len(uinput) : \A j \in 1..Len(uinput[i]) :
            uinput[i][j].code = "BTN_TOOL_PEN" => uinput[i][j].value = 1

\* a release replayed by a resync, after a press: the pen stays in proximity
C18_Witness ==
    /\ resync.done
    /\ hist = <<InputEvent("BTN_LEFT", 1), InputEvent("BTN_LEFT", 0)>>
    /\ resync.S = <<InputEvent("BTN_LEFT", 0)>>
    /\ ~tablet.is_away
    /\ uinput = <<Burst(1, 1, 0, 0), Burst(0, 1, 0, 0)>>

\* C19: no input reaches the button transitions: in every state of the main
\* loop, resync replays included, pressed_button_1 and pressed_button_2 are
\* false and every snapshot burst written has BTN_STYLUS = BTN_STYLUS2 = 0.
C19_ButtonsNeverPressed ==
    /\ ~tablet.pressed_button_1
    /\ ~tablet.pressed_button_2
    /\ \A i \in 1..Len(uinput) :
        IsFullBurst(uinput[i]) =>
            /\ uinput[i][3] = InputEvent("BTN_STYLUS", 0)
            /\ uinput[i][4] = InputEvent("BTN_STYLUS2", 0)

\* a key that is not the touch key is read, then a press and a replayed release
C19_Witness ==
    /\ resync.done
    /\ Len(resync.S) > 0
    /\ Len(hist) = 3
    /\ hist[1] = InputEvent("BTN_TOOL_PEN", 1)
    /\ Len(uinput) = 2
    /\ IsFullBurst(uinput[1])
    /\ IsFullBurst(uinput[2])

\* C20: a touch key event with any value other than 1 is a release
\* (is_touching false, burst with BTN_TOUCH = 0), so is_touching is true
\* exactly when the last touch key event handled had value 1.
C20_TouchIffLastIsOne ==
    /\ tablet.is_touching =
            (HasCode(hist, "BTN_LEFT") /\ LastValue(hist, "BTN_LEFT") = 1)
    /\ (Len(hist) > 0 /\ IsTouchKey(Last(hist)) /\ Last(hist).value # 1) =>
            /\ ~tablet.is_touching
            /\ Len(uinput) > 0
            /\ Last(uinput) = Burst(0, 1, 0, 0)

\* a press followed by a key-repeat event (value 2)
C20_Witness ==
    /\ hist = <<InputEvent("BTN_LEFT", 1), InputEvent("BTN_LEFT", 2)>>
    /\ ~tablet.is_touching
    /\ uinput = <<Burst(1, 1, 0, 0), Burst(0, 1, 0, 0)>>

====
